---- MODULE Spec2Model ----
(***************************************************************************)
(* Model of buildstream/_pipeline.py: the Resolver, which instantiates     *)
(* Element and Source objects from a tree of MetaElement / MetaSource      *)
(* descriptions, and the Pipeline, which resolves its target, preflights   *)
(* every plugin of the resolved graph and then serves dependencies().      *)
(*                                                                         *)
(* Objects are modelled by identity: a MetaElement is a node number, an    *)
(* Element or Source is its index in the heap of objects of its class, in  *)
(* creation order.  A plugin yielded by Pipeline.dependencies() is the     *)
(* pair <<class, index>>.                                                  *)
(***************************************************************************)
EXTENDS Naturals, Sequences, FiniteSets

\* Number of MetaElement objects the loader may hand over (the target is 1).
NumNodes == 3

\* The MetaElement objects.
Nodes == 1..NumNodes

\* The source lists a MetaElement may carry: MetaSource objects by identity;
\* the same MetaSource may occur twice in one list and in several lists.
SourceLists == {<< >>, <<"tar">>, <<"git", "git">>}

\* None, for a field that holds no object yet.
None == 0

Range(s) == {s[i] : i \in DOMAIN s}

Injective(s) == \A i, j \in DOMAIN s : s[i] = s[j] => i = j

\* The dependency lists MetaElement n may carry.  The loader hands over an
\* acyclic tree: a MetaElement depends only on MetaElements numbered after it.
DepLists(n) ==
    {s \in UNION {[1..k -> (n + 1)..NumNodes] : k \in 0..(NumNodes - n)} : Injective(s)}

\* A MetaElement: its runtime dependencies, build dependencies and sources.
MetaElements(n) ==
    [dependencies : DepLists(n), build_dependencies : DepLists(n), sources : SourceLists]

\* The trees Loader.load() may return, as the MetaElements 1..k of each.
RECURSIVE Trees(_)
Trees(k) ==
    IF k = 0 THEN {<< >>}
    ELSE {Append(t, m) : t \in Trees(k - 1), m \in MetaElements(k)}

Scopes == {"ALL", "BUILD", "RUN"}

\* None, for a file name, for the bytes of a file and for the credentials
\* object.
NoFile == ""

NoBytes == << >>

\* The port urlparse finds in a url: << >> for None, else <<port>>.
Ports == {<< >>, <<0>>, <<50051>>}

\* The arguments RemoteSpec.__init__ may be given: the url by what urlparse
\* finds in it, spec_node by whether there is one.
RemoteSpecs ==
    [remote_type : {"index", "storage", "endpoint", "all"},
     scheme : {"http", "https", "ftp"},
     port : Ports,
     spec_node : BOOLEAN,
     server_cert_file : {NoFile, "server.crt"},
     client_key_file : {NoFile, "client.key"},
     client_cert_file : {NoFile, "client.crt"}]

\* A RemoteSpec with no certificate and a plain url.
PlainSpec ==
    [remote_type |-> "all", scheme |-> "http", port |-> << >>, spec_node |-> FALSE,
     server_cert_file |-> NoFile, client_key_file |-> NoFile,
     client_cert_file |-> NoFile]

\* The project files that refresh() may be asked to rewrite.
Filenames == {"a.bst", "b.bst"}

VARIABLES
    meta,               \* the MetaElement tree returned by loader.load()
    pstate,             \* where Pipeline.__init__ stands
    resolved_elements,  \* Resolver.resolved_elements: MetaElement -> Element
    elements,           \* the Element objects, in creation order
    sources,            \* the Source objects, in creation order
    stack,              \* the frames of resolve_element, innermost last
    target,             \* Pipeline.target
    pending,            \* what the preflight loop's generator has yet to yield
    trace,              \* the calls made to the factories and to preflight()
    result,             \* what the last operation on the Pipeline returned
    ops,                \* how many inconsistent() and refresh() calls were made
    rstate,             \* where the running refresh() stands
    todo,               \* refresh(): the Elements its traversal has yet to yield
    files,              \* refresh(): the local `files`, filename -> toplevel node
    changed,            \* refresh(): the local `sources`, the changed Sources
    written,            \* refresh(): the filenames its second loop has dumped
    disk,               \* the project files: filename -> what was last dumped
    log,                \* the calls the running operation made, with what
                        \* each returned
    remote,             \* a RemoteSpec: the fields its constructor was given
    _cred_files_loaded, \* RemoteSpec._cred_files_loaded
    _server_cert,       \* RemoteSpec._server_cert
    _client_key,        \* RemoteSpec._client_key
    _client_cert,       \* RemoteSpec._client_cert
    _credentials,       \* RemoteSpec._credentials
    reads,              \* the files opened for the RemoteSpec, in order
    channels,           \* the grpc channels opened for the RemoteSpec
    outcome,            \* what the last call on the RemoteSpec returned or raised
    accesses,           \* how many calls were made on the RemoteSpec
    other               \* a second Pipeline, while it is not the one running:
                        \* its own state and that of its Resolver

\* The state of Resolver and Pipeline.__init__.
pipeline_vars == <<meta, pstate, resolved_elements, elements, sources, stack,
                   target, pending, trace>>

\* The state of the operations of a constructed Pipeline, and the project
\* directory.
op_vars == <<ops, rstate, todo, files, changed, written, disk, log>>

\* The state of a RemoteSpec.
remote_vars == <<remote, _cred_files_loaded, _server_cert, _client_key,
                 _client_cert, _credentials, reads, channels, outcome, accesses>>

vars == <<pipeline_vars, result, op_vars, remote_vars, other>>

(***************************************************************************)
(* Resolver                                                                *)
(***************************************************************************)

\* The Element that element_factory.create() returns: no dependency and no
\* source yet.
NewElement(meta_element) ==
    [meta_element |-> meta_element, runtime_dependencies |-> << >>,
     build_dependencies |-> << >>, sources |-> << >>]

\* The Source that source_factory.create() returns.
NewSource(meta_source) == [meta_source |-> meta_source]

\* The sources loop run between the two dependency loops.
SourcesBetween(loop) ==
    CASE loop = "dependencies" -> "sources"
      [] loop = "sources" -> "build_dependencies"
      [] loop = "build_dependencies" -> "return"

\* The three loops of resolve_element, in the order the code runs them.
NextLoop(loop) ==
    CASE loop = "dependencies" -> "build_dependencies"
      [] loop = "build_dependencies" -> "sources"
      [] loop = "sources" -> "return"

\* A frame of resolve_element moved to the next iteration it has to run: past
\* every loop that is exhausted, to "return" when all are.
RECURSIVE Normalise(_)
Normalise(f) ==
    IF f.loop = "return" THEN f
    ELSE IF f.i <= Len(meta[f.meta_element][f.loop]) THEN f
    ELSE Normalise([f EXCEPT !.loop = NextLoop(f.loop), !.i = 1])

\* The frame of resolve_element(meta_element) once the Element is created
\* and memoized.
Enter(meta_element, element) ==
    Normalise([meta_element |-> meta_element, element |-> element,
               loop |-> "dependencies", i |-> 1])

\* The frame after the iteration it stands at.
Advance(f) == Normalise([f EXCEPT !.i = f.i + 1])

Top == stack[Len(stack)]

\* The MetaElement or MetaSource the innermost frame's loop stands at.
Current == meta[Top.meta_element][Top.loop][Top.i]

\* The argument of the resolve_element call that is about to run: the target
\* when Pipeline.__init__ makes the call, else the dependency the innermost
\* frame stands at.
Callee == IF stack = << >> THEN 1 ELSE Current

CallingResolveElement ==
    /\ pstate = "RESOLVING"
    /\ IF stack = << >> THEN TRUE
       ELSE Top.loop \in {"dependencies", "build_dependencies"}

\* A resolve_element without its memo check.
NeverMemoized(meta_element) == FALSE

\* resolve_element(meta_element) is on the call stack.
InProgress(meta_element) == \E k \in DOMAIN stack : stack[k].meta_element = meta_element

\* A memo that resolve_element fills in when it returns, not before its loops.
MemoizedOnReturn(meta_element) ==
    meta_element \in DOMAIN resolved_elements /\ ~InProgress(meta_element)

\* "meta_element in self.resolved_elements"
Memoized(meta_element) == meta_element \in DOMAIN resolved_elements

\* The append put at the head of the list instead of its end.
PrependDependency(f, child) ==
    IF f.loop = "dependencies"
    THEN [elements EXCEPT ![f.element].runtime_dependencies = <<child>> \o @]
    ELSE [elements EXCEPT ![f.element].build_dependencies = <<child>> \o @]

\* The two loops appending to each other's list.
AppendDependencySwapped(f, child) ==
    IF f.loop = "dependencies"
    THEN [elements EXCEPT ![f.element].build_dependencies = Append(@, child)]
    ELSE [elements EXCEPT ![f.element].runtime_dependencies = Append(@, child)]

\* The Elements after the append of `child` that frame f's loop does.
AppendDependency(f, child) ==
    IF f.loop = "dependencies"
    THEN [elements EXCEPT ![f.element].runtime_dependencies = Append(@, child)]
    ELSE [elements EXCEPT ![f.element].build_dependencies = Append(@, child)]

\* A resolve_source that memoizes by MetaSource, as resolve_element does.
MemoizedSourceObject(meta_source) ==
    IF \E s \in DOMAIN sources : sources[s].meta_source = meta_source
    THEN CHOOSE s \in DOMAIN sources : sources[s].meta_source = meta_source
    ELSE Len(sources) + 1

\* The Source object resolve_source returns: always a new one.
ResolveSourceObject(meta_source) == Len(sources) + 1

Event(call, arg, ok) == [call |-> call, arg |-> arg, ok |-> ok]

\* Pipeline.__init__ up to the call of resolver.resolve_element: the loader
\* has returned the tree and the Resolver exists, with an empty memo.
Construct ==
    /\ pstate = "UNBUILT"
    /\ pstate' = "RESOLVING"
    /\ UNCHANGED <<meta, resolved_elements, elements, sources, stack, target,
                   pending, trace, result>>
    /\ UNCHANGED <<op_vars, remote_vars, other>>

\* resolve_element on a MetaElement that is in the memo: the memoized Element
\* is returned and the caller's loop appends it.
ResolveElementMemoized ==
    /\ CallingResolveElement
    /\ Memoized(Callee)
    /\ stack # << >>
    /\ elements' = AppendDependency(Top, resolved_elements[Callee])
    /\ stack' = [stack EXCEPT ![Len(stack)] = Advance(Top)]
    /\ UNCHANGED <<meta, pstate, resolved_elements, sources, target, pending,
                   trace, result>>
    /\ UNCHANGED <<op_vars, remote_vars, other>>

\* resolve_element on a MetaElement that is not in the memo: the factory
\* creates the Element, which is memoized before its loops start.
ResolveElementCreate ==
    /\ CallingResolveElement
    /\ ~Memoized(Callee)
    /\ trace' = Append(trace, Event("element_factory.create", Callee, TRUE))
    /\ elements' = Append(elements, NewElement(Callee))
    /\ resolved_elements' =
           [m \in DOMAIN resolved_elements \cup {Callee} |->
               IF m = Callee THEN Len(elements) + 1 ELSE resolved_elements[m]]
    /\ stack' = Append(stack, Enter(Callee, Len(elements) + 1))
    /\ UNCHANGED <<meta, pstate, sources, target, pending, result>>
    /\ UNCHANGED <<op_vars, remote_vars, other>>

\* A resolver that goes on after a factory's error.
FactoryErrorIgnored == "RESOLVING"

\* The state of Pipeline.__init__ after a factory's create() that raised.
AfterFactoryError == "FAILED"

\* element_factory.create() raises: the error leaves every frame of
\* resolve_element and Pipeline.__init__.
ResolveElementFails ==
    /\ CallingResolveElement
    /\ ~Memoized(Callee)
    /\ trace' = Append(trace, Event("element_factory.create", Callee, FALSE))
    /\ pstate' = AfterFactoryError
    /\ UNCHANGED <<meta, resolved_elements, elements, sources, stack, target,
                   pending, result>>
    /\ UNCHANGED <<op_vars, remote_vars, other>>

\* One iteration of the sources loop: resolve_source creates the Source and
\* the loop appends it.
ResolveSource ==
    /\ pstate = "RESOLVING"
    /\ stack # << >>
    /\ Top.loop = "sources"
    /\ LET source == ResolveSourceObject(Current) IN
         /\ sources' = IF source > Len(sources)
                       THEN Append(sources, NewSource(Current)) ELSE sources
         /\ elements' = [elements EXCEPT ![Top.element].sources = Append(@, source)]
    /\ trace' = Append(trace, Event("source_factory.create", Current, TRUE))
    /\ stack' = [stack EXCEPT ![Len(stack)] = Advance(Top)]
    /\ UNCHANGED <<meta, pstate, resolved_elements, target, pending, result>>
    /\ UNCHANGED <<op_vars, remote_vars, other>>

\* source_factory.create() raises.
ResolveSourceFails ==
    /\ pstate = "RESOLVING"
    /\ stack # << >>
    /\ Top.loop = "sources"
    /\ trace' = Append(trace, Event("source_factory.create", Current, FALSE))
    /\ pstate' = AfterFactoryError
    /\ UNCHANGED <<meta, resolved_elements, elements, sources, stack, target,
                   pending, result>>
    /\ UNCHANGED <<op_vars, remote_vars, other>>

(***************************************************************************)
(* Element.dependencies(scope)                                             *)
(***************************************************************************)

\* The dependency lists of Element e that a traversal of `scope` follows.
ScopeEdges(e, scope) ==
    CASE scope = "ALL" -> elements[e].build_dependencies \o elements[e].runtime_dependencies
      [] scope = "BUILD" -> elements[e].build_dependencies
      [] scope = "RUN" -> elements[e].runtime_dependencies

\* Depth first, dependencies before the Element itself, each Element once:
\* acc is what was yielded so far, visiting the Elements being descended into.
RECURSIVE Visit(_, _, _, _)
RECURSIVE VisitEach(_, _, _, _)
Visit(e, scope, visiting, acc) ==
    IF e \in Range(acc) \/ e \in visiting THEN acc
    ELSE Append(VisitEach(ScopeEdges(e, scope), scope, visiting \cup {e}, acc), e)

VisitEach(deps, scope, visiting, acc) ==
    IF deps = << >> THEN acc
    ELSE VisitEach(Tail(deps), scope, visiting, Visit(Head(deps), scope, visiting, acc))

\* element.dependencies(scope): the Elements it yields, in order.
ElementDependencies(e, scope) == Visit(e, scope, {}, << >>)

(***************************************************************************)
(* Pipeline                                                                *)
(***************************************************************************)

SourcePlugins(e) == [i \in 1..Len(elements[e].sources) |-> <<"source", elements[e].sources[i]>>]

\* The Element yielded before its Sources.
YieldElementFirst(e, include_sources) ==
    << <<"element", e>> >> \o (IF include_sources THEN SourcePlugins(e) ELSE << >>)

\* What the body of the generator's loop yields for one Element.
YieldElement(e, include_sources) ==
    (IF include_sources THEN SourcePlugins(e) ELSE << >>) \o << <<"element", e>> >>

RECURSIVE YieldEach(_, _)
YieldEach(es, include_sources) ==
    IF es = << >> THEN << >>
    ELSE YieldElement(Head(es), include_sources) \o YieldEach(Tail(es), include_sources)

\* A generator that ignores include_sources.
PipelineDependenciesNoSources(scope, include_sources) ==
    YieldEach(ElementDependencies(target, scope), FALSE)

\* Pipeline.dependencies(scope, include_sources): the plugins it yields.
PipelineDependencies(scope, include_sources) ==
    YieldEach(ElementDependencies(target, scope), include_sources)

\* A resolution that hands over to Pipeline.__init__ one frame too early.
ReturnsEarly(caller) == Len(caller) <= 1

\* Whether the returning resolve_element is the call Pipeline.__init__ made.
ReturnsToPipeline(caller) == caller = << >>

\* The state Pipeline.__init__ is in when the outermost resolve_element has
\* returned `element`: self.target is set and the preflight loop starts.
ResolveReturns(element) ==
    /\ target' = element
    /\ pstate' = "PREFLIGHTING"
    /\ pending' = PipelineDependencies("ALL", TRUE)'

\* resolve_element returns its Element: to the loop of the frame below, which
\* appends it, or to Pipeline.__init__.
ResolveElementReturn ==
    /\ pstate = "RESOLVING"
    /\ stack # << >>
    /\ Top.loop = "return"
    /\ LET caller == SubSeq(stack, 1, Len(stack) - 1) IN
         IF ReturnsToPipeline(caller)
         THEN /\ stack' = caller
              /\ elements' = elements
              /\ ResolveReturns(Top.element)
         ELSE /\ elements' = AppendDependency(caller[Len(caller)], Top.element)
              /\ stack' = [caller EXCEPT ![Len(caller)] = Advance(@)]
              /\ UNCHANGED <<pstate, target, pending>>
    /\ UNCHANGED <<meta, resolved_elements, sources, trace, result>>
    /\ UNCHANGED <<op_vars, remote_vars, other>>

\* The state of Pipeline.__init__ after a preflight() that returned, `rest`
\* being what the generator still has to yield.
AfterPreflight(rest) == IF rest = << >> THEN "READY" ELSE "PREFLIGHTING"

\* One iteration of the preflight loop: plugin.preflight() returns.
Preflight ==
    /\ pstate = "PREFLIGHTING"
    /\ pending # << >>
    /\ trace' = Append(trace, Event("preflight", Head(pending), TRUE))
    /\ pending' = Tail(pending)
    /\ pstate' = AfterPreflight(Tail(pending))
    /\ UNCHANGED <<meta, resolved_elements, elements, sources, stack, target, result>>
    /\ UNCHANGED <<op_vars, remote_vars, other>>

\* A preflight loop that goes on after an error.
PreflightErrorIgnored == "PREFLIGHTING"

\* A preflight loop that ends normally on an error.
PreflightErrorSwallowed == "READY"

\* The state of Pipeline.__init__ after a preflight() that raised.
AfterPreflightError == "FAILED"

\* plugin.preflight() raises: the error leaves Pipeline.__init__.
PreflightFails ==
    /\ pstate = "PREFLIGHTING"
    /\ pending # << >>
    /\ trace' = Append(trace, Event("preflight", Head(pending), FALSE))
    /\ pstate' = AfterPreflightError
    /\ UNCHANGED <<meta, resolved_elements, elements, sources, stack, target,
                   pending, result>>
    /\ UNCHANGED <<op_vars, remote_vars, other>>

\* A caller that holds the constructed Pipeline iterates
\* dependencies(scope, include_sources) to its end.
Dependencies(scope, include_sources) ==
    /\ pstate = "READY"
    /\ result' = [op |-> "dependencies", scope |-> scope,
                  include_sources |-> include_sources,
                  value |-> PipelineDependencies(scope, include_sources)]
    /\ UNCHANGED <<meta, pstate, resolved_elements, elements, sources, stack,
                   target, pending, trace>>
    /\ UNCHANGED <<op_vars, remote_vars, other>>

\* The state before Pipeline.__init__ runs on one of `trees`: nothing is
\* resolved and the project files are as the loader read them.
\* A Pipeline whose __init__ has not run yet.
Unbuilt ==
    [pstate |-> "UNBUILT", resolved_elements |-> << >>, stack |-> << >>,
     target |-> None, pending |-> << >>, trace |-> << >>]

InitWith(trees) ==
    /\ meta \in trees
    /\ other = Unbuilt
    /\ pstate = "UNBUILT"
    /\ resolved_elements = << >>
    /\ elements = << >>
    /\ sources = << >>
    /\ stack = << >>
    /\ target = None
    /\ pending = << >>
    /\ trace = << >>
    /\ result = [op |-> "none"]
    /\ ops = 0
    /\ rstate = "idle"
    /\ todo = << >>
    /\ files = << >>
    /\ changed = << >>
    /\ written = {}
    /\ disk = [filename \in Filenames |-> "loaded"]
    /\ log = << >>

\* The state RemoteSpec.__init__ leaves, for one of `specs`: nothing is
\* loaded, no credentials object exists.
InitRemote(specs) ==
    /\ remote \in specs
    /\ _cred_files_loaded = FALSE
    /\ _server_cert = NoBytes
    /\ _client_key = NoBytes
    /\ _client_cert = NoBytes
    /\ _credentials = NoBytes
    /\ reads = << >>
    /\ channels = << >>
    /\ outcome = [call |-> "none"]
    /\ accesses = 0

Init == InitWith(Trees(NumNodes)) /\ InitRemote({PlainSpec})

Next ==
    \/ Construct
    \/ ResolveElementMemoized
    \/ ResolveElementCreate
    \/ ResolveElementFails
    \/ ResolveSource
    \/ ResolveSourceFails
    \/ ResolveElementReturn
    \/ Preflight
    \/ PreflightFails
    \/ \E scope \in Scopes, include_sources \in BOOLEAN :
           Dependencies(scope, include_sources)

Spec == Init /\ [][Next]_vars

(***************************************************************************)
(* Pipeline.inconsistent() and Pipeline.refresh()                          *)
(***************************************************************************)

\* How many inconsistent() and refresh() calls a caller makes.
MaxOps == 1

\* The subsequences of s.
RECURSIVE SubSeqs(_)
SubSeqs(s) ==
    IF s = << >> THEN {<< >>}
    ELSE LET rest == SubSeqs(Tail(s))
         IN rest \cup {<<Head(s)>> \o r : r \in rest}

\* What elt._inconsistent() may return: Sources of the Element, in the order
\* of its list.
OwnInconsistentSources(e) == SubSeqs(elements[e].sources)

\* What elt._refresh() may return as its changed Sources.
RefreshedSources(e) == SubSeqs(elements[e].sources)

\* What elt._refresh() may return as its files: toplevel nodes of its own, for
\* any of the project files.
RefreshedFiles(e) == {[filename \in F |-> <<"toplevel", e>>] : F \in SUBSET Filenames}

\* One choice out of each set of the sequence choices.
RECURSIVE Returns(_)
Returns(choices) ==
    IF choices = << >> THEN {<< >>}
    ELSE {<<ret>> \o rest : ret \in Head(choices), rest \in Returns(Tail(choices))}

\* A `sources = ...` in the place of `sources += ...`.
Assigned(acc, more) == more

\* "sources += ...": the list extended in place.
Extended(acc, more) == acc \o more

\* The local `sources` of inconsistent() after its loop over Elements es, of
\* which rets are the return values of elt._inconsistent().
RECURSIVE InconsistentLoop(_, _)
InconsistentLoop(acc, rets) ==
    IF rets = << >> THEN acc
    ELSE InconsistentLoop(Extended(acc, Head(rets)), Tail(rets))

\* A traversal of the runtime dependencies alone.
RunScope == "RUN"

\* The scope inconsistent() and refresh() traverse.
TraversalScope == "ALL"

\* A call recorded with what it returned.
Returned(call, arg, ok, ret_files, ret_sources) ==
    [call |-> call, arg |-> arg, ok |-> ok, files |-> ret_files, sources |-> ret_sources]

NoRefreshRunning == rstate \in {"idle", "returned", "raised"}

\* Pipeline.inconsistent(), from call to return.
Inconsistent ==
    /\ pstate = "READY"
    /\ NoRefreshRunning
    /\ ops < MaxOps
    /\ LET es == ElementDependencies(target, TraversalScope) IN
         \E rets \in Returns([i \in DOMAIN es |-> OwnInconsistentSources(es[i])]) :
            /\ log' = [i \in DOMAIN es |->
                          Returned("_inconsistent", es[i], TRUE, << >>, rets[i])]
            /\ result' = [op |-> "inconsistent", value |-> InconsistentLoop(<< >>, rets)]
    /\ ops' = ops + 1
    /\ UNCHANGED <<pipeline_vars, rstate, todo, files, changed, written, disk>>
    /\ UNCHANGED <<remote_vars, other>>

\* refresh() up to its first loop: the locals are empty.
RefreshBegin ==
    /\ pstate = "READY"
    /\ NoRefreshRunning
    /\ ops < MaxOps
    /\ ops' = ops + 1
    /\ rstate' = "traversal"
    /\ todo' = ElementDependencies(target, TraversalScope)
    /\ files' = << >>
    /\ changed' = << >>
    /\ written' = {}
    /\ log' = << >>
    /\ result' = [op |-> "refresh", value |-> << >>, before |-> disk]
    /\ UNCHANGED <<pipeline_vars, disk>>
    /\ UNCHANGED <<remote_vars, other>>

\* A merge that keeps the node a file already has.
FirstWriterWins(into, from) ==
    [filename \in DOMAIN into \cup DOMAIN from |->
        IF filename \in DOMAIN into THEN into[filename] ELSE from[filename]]

\* A `files = elt_files` in the place of the update.
Replaced(into, from) == from

\* "files.update(elt_files)"
Update(into, from) ==
    [filename \in DOMAIN into \cup DOMAIN from |->
        IF filename \in DOMAIN from THEN from[filename] ELSE into[filename]]

\* A refresh() that writes what it has as soon as one Element is refreshed.
WritesAsItGoes(rest) == "writing"

\* Where refresh() stands after an iteration of its first loop.
AfterRefreshOf(rest) == IF rest = << >> THEN "writing" ELSE "traversal"

\* One iteration of the first loop of refresh(): elt._refresh() returns.
RefreshElement ==
    /\ rstate = "traversal"
    /\ todo # << >>
    /\ LET elt == Head(todo) IN
         \E elt_files \in RefreshedFiles(elt), elt_sources \in RefreshedSources(elt) :
            /\ changed' = Extended(changed, elt_sources)
            /\ files' = Update(files, elt_files)
            /\ log' = Append(log, Returned("_refresh", elt, TRUE, elt_files, elt_sources))
    /\ todo' = Tail(todo)
    /\ rstate' = AfterRefreshOf(Tail(todo))
    /\ UNCHANGED <<pipeline_vars, result, ops, written, disk>>
    /\ UNCHANGED <<remote_vars, other>>

\* A refresh() that goes on to its second loop after an error.
RefreshErrorIgnored == "writing"

\* Where refresh() stands after an elt._refresh() that raised.
AfterRefreshError == "raised"

\* elt._refresh() raises: the error leaves refresh().
RefreshElementFails ==
    /\ rstate = "traversal"
    /\ todo # << >>
    /\ log' = Append(log, Returned("_refresh", Head(todo), FALSE, << >>, << >>))
    /\ rstate' = AfterRefreshError
    /\ UNCHANGED <<pipeline_vars, result, ops, todo, files, changed, written, disk>>
    /\ UNCHANGED <<remote_vars, other>>

\* The filenames the second loop of refresh() has yet to reach; the order in
\* which a dict yields them is not fixed.
ToDump == DOMAIN files \ written

\* One iteration of the second loop of refresh(): _yaml.dump() writes the file.
DumpFile ==
    /\ rstate = "writing"
    /\ \E filename \in ToDump :
          /\ disk' = [disk EXCEPT ![filename] = files[filename]]
          /\ written' = written \cup {filename}
          /\ log' = Append(log, Returned("dump", filename, TRUE, << >>, << >>))
    /\ UNCHANGED <<pipeline_vars, result, ops, rstate, todo, files, changed>>
    /\ UNCHANGED <<remote_vars, other>>

\* _yaml.dump() raises: the error leaves refresh(); the file is as it was.
DumpFileFails ==
    /\ rstate = "writing"
    /\ \E filename \in ToDump :
          log' = Append(log, Returned("dump", filename, FALSE, << >>, << >>))
    /\ rstate' = "raised"
    /\ UNCHANGED <<pipeline_vars, result, ops, todo, files, changed, written, disk>>
    /\ UNCHANGED <<remote_vars, other>>

\* refresh() returns its local `sources`.
RefreshReturn ==
    /\ rstate = "writing"
    /\ ToDump = {}
    /\ rstate' = "returned"
    /\ result' = [result EXCEPT !.value = changed]
    /\ UNCHANGED <<pipeline_vars, ops, todo, files, changed, written, disk, log>>
    /\ UNCHANGED <<remote_vars, other>>

\* The sources of the MetaElements of the trees the operations are run on.
OpSources(n) == IF n = 1 THEN <<"tar">> ELSE IF n = 2 THEN <<"git", "git">> ELSE << >>

\* The trees of k MetaElements the operations are run on: every MetaElement
\* is in the tree of the target.
OpTrees(k) ==
    {t \in Trees(k) :
        /\ \A n \in 1..k : t[n].sources = OpSources(n)
        /\ \A n \in 2..k :
               \E m \in 1..(n - 1) : n \in Range(t[m].dependencies \o t[m].build_dependencies)}

\* How many dependencies a list of a cyclic description has at most.
MaxCyclicDeps == 1

\* A list of dependencies that the loader did not check for cycles: it may
\* name any MetaElement, the one it belongs to included.
CyclicDepLists ==
    {l \in UNION {[1..k -> Nodes] : k \in 0..MaxCyclicDeps} : Injective(l)}

\* The descriptions a loader that overlooks cycles may return.
RECURSIVE CyclicTrees(_)
CyclicTrees(k) ==
    IF k = 0 THEN {<< >>}
    ELSE {Append(t, m) :
             t \in CyclicTrees(k - 1),
             m \in [dependencies : CyclicDepLists, build_dependencies : CyclicDepLists,
                    sources : {OpSources(k)}]}

InitOps == InitWith(OpTrees(NumNodes)) /\ InitRemote({PlainSpec})

NextOps ==
    \/ Construct
    \/ ResolveElementMemoized
    \/ ResolveElementCreate
    \/ ResolveElementFails
    \/ ResolveSource
    \/ ResolveSourceFails
    \/ ResolveElementReturn
    \/ Preflight
    \/ PreflightFails
    \/ Inconsistent
    \/ RefreshBegin
    \/ RefreshElement
    \/ RefreshElementFails
    \/ DumpFile
    \/ DumpFileFails
    \/ RefreshReturn

\* Construction of a Pipeline, then inconsistent() and refresh().
SpecOps == InitOps /\ [][NextOps]_vars

InitCyclic == InitWith(CyclicTrees(NumNodes)) /\ InitRemote({PlainSpec})

NextCyclic ==
    \/ Construct
    \/ ResolveElementMemoized
    \/ ResolveElementCreate
    \/ ResolveElementFails
    \/ ResolveSource
    \/ ResolveSourceFails
    \/ ResolveElementReturn

\* The Resolver's pass over a description that may have cycles.
SpecCyclic == InitCyclic /\ [][NextCyclic]_vars

\* The same pass, run by an interpreter that does not stop between two of
\* its steps.
SpecCyclicFair == SpecCyclic /\ WF_vars(NextCyclic)

(***************************************************************************)
(* Two Pipelines                                                           *)
(***************************************************************************)

\* One dict for every Resolver, as a class attribute would be.
SharedMemo(pipeline) == resolved_elements

\* "self.resolved_elements" of the Resolver of `pipeline`: the dict its
\* __init__ made.
MemoOf(pipeline) == pipeline.resolved_elements

\* The Pipeline that is running, as it is put aside.
Running ==
    [pstate |-> pstate, resolved_elements |-> resolved_elements, stack |-> stack,
     target |-> target, pending |-> pending, trace |-> trace]

\* The interpreter goes from the construction of one Pipeline to that of the
\* other, between two steps: each has its own Resolver and its own place in
\* __init__; the Element and Source objects made so far stay where they are.
Switch ==
    /\ other' = Running
    /\ pstate' = other.pstate
    /\ resolved_elements' = MemoOf(other)
    /\ stack' = other.stack
    /\ target' = other.target
    /\ pending' = other.pending
    /\ trace' = other.trace
    /\ UNCHANGED <<meta, elements, sources, result, op_vars, remote_vars>>

\* The descriptions the two Pipelines are built over: each list of
\* dependencies with one entry at most, the target alone with a source.
RECURSIVE SmallTrees(_)
SmallTrees(k) ==
    IF k = 0 THEN {<< >>}
    ELSE {Append(t, m) :
             t \in SmallTrees(k - 1),
             m \in {c \in MetaElements(k) :
                       /\ Len(c.dependencies) <= 1
                       /\ Len(c.build_dependencies) <= 1
                       /\ c.sources = (IF k = 1 THEN <<"tar">> ELSE << >>)}}

InitTwo == InitWith(SmallTrees(NumNodes)) /\ InitRemote({PlainSpec})

NextTwo ==
    \/ Construct
    \/ ResolveElementMemoized
    \/ ResolveElementCreate
    \/ ResolveElementFails
    \/ ResolveSource
    \/ ResolveSourceFails
    \/ ResolveElementReturn
    \/ Preflight
    \/ PreflightFails
    \/ Switch

\* Two Pipelines constructed over the same description, one after the other
\* or interleaved.
SpecTwo == InitTwo /\ [][NextTwo]_vars

(***************************************************************************)
(* RemoteSpec                                                              *)
(***************************************************************************)

\* How many times a caller reads a property of the RemoteSpec or opens a
\* channel.
MaxAccesses == 2

\* The bytes read from a file.
Bytes(filename) == <<filename>>

\* The certificate files of the spec, in the order _load_credential_files
\* reads them.
CredentialFiles ==
    <<remote.server_cert_file, remote.client_key_file, remote.client_cert_file>>

\* The file, if any, that cannot be read at the time of a call.
Broken == {NoFile, "server.crt", "client.key", "client.crt"}

\* A RemoteError: its reason and whether its message starts with the
\* provenance of the spec node.
RemoteError(call, reason) ==
    [call |-> call, ok |-> FALSE, value |-> reason, provenance |-> remote.spec_node]

\* A call that returned value.
ReturnedValue(call, value) ==
    [call |-> call, ok |-> TRUE, value |-> value, provenance |-> FALSE]

\* A load that reads the files again at every call.
NeverLoaded == FALSE

\* "if not self._cred_files_loaded" is not taken.
AlreadyLoaded == _cred_files_loaded

\* The first of the three maybe_read_file calls that raises, 4 when none does.
FirstFailure(broken) ==
    LET failing == {k \in 1..3 : CredentialFiles[k] # NoFile /\ CredentialFiles[k] = broken}
    IN IF failing = {} THEN 4 ELSE CHOOSE k \in failing : \A j \in failing : k <= j

\* What the k-th maybe_read_file call returns when it does not raise.
MaybeReadFile(k) ==
    IF CredentialFiles[k] = NoFile THEN NoBytes ELSE Bytes(CredentialFiles[k])

\* The open() calls of one _load_credential_files, the last of which failed
\* when one did.
RECURSIVE ReadsUpTo(_, _)
ReadsUpTo(k, first) ==
    IF k = 0 THEN << >>
    ELSE ReadsUpTo(k - 1, first) \o
         (IF CredentialFiles[k] = NoFile \/ k > first THEN << >>
          ELSE <<[file |-> CredentialFiles[k], ok |-> k # first]>>)

\* A load that sets _cred_files_loaded before it reads the files.
LoadedBeforeRead(broken) ==
    IF AlreadyLoaded
    THEN [ok |-> TRUE, loaded |-> _cred_files_loaded, server_cert |-> _server_cert,
          client_key |-> _client_key, client_cert |-> _client_cert, reads |-> << >>]
    ELSE LET first == FirstFailure(broken) IN
         [ok |-> first = 4,
          loaded |-> TRUE,
          server_cert |-> IF 1 < first THEN MaybeReadFile(1) ELSE _server_cert,
          client_key |-> IF 2 < first THEN MaybeReadFile(2) ELSE _client_key,
          client_cert |-> IF 3 < first THEN MaybeReadFile(3) ELSE _client_cert,
          reads |-> ReadsUpTo(3, first)]

\* _load_credential_files(): the fields after it, the files it opened and
\* whether it returned.
LoadCredentialFiles(broken) ==
    IF AlreadyLoaded
    THEN [ok |-> TRUE, loaded |-> _cred_files_loaded, server_cert |-> _server_cert,
          client_key |-> _client_key, client_cert |-> _client_cert, reads |-> << >>]
    ELSE LET first == FirstFailure(broken) IN
         [ok |-> first = 4,
          loaded |-> first = 4,
          server_cert |-> IF 1 < first THEN MaybeReadFile(1) ELSE _server_cert,
          client_key |-> IF 2 < first THEN MaybeReadFile(2) ELSE _client_key,
          client_cert |-> IF 3 < first THEN MaybeReadFile(3) ELSE _client_cert,
          reads |-> ReadsUpTo(3, first)]

\* The fields and the record of open() calls after the load `loaded`.
Load(loaded) ==
    /\ _cred_files_loaded' = loaded.loaded
    /\ _server_cert' = loaded.server_cert
    /\ _client_key' = loaded.client_key
    /\ _client_cert' = loaded.client_cert
    /\ reads' = reads \o loaded.reads

Properties == {"server_cert", "client_key", "client_cert"}

\* The private field a property returns.
Field(prop, loaded) ==
    CASE prop = "server_cert" -> loaded.server_cert
      [] prop = "client_key" -> loaded.client_key
      [] prop = "client_cert" -> loaded.client_cert

\* A read of the property server_cert, client_key or client_cert.
Get(prop) ==
    /\ accesses < MaxAccesses
    /\ accesses' = accesses + 1
    /\ \E broken \in Broken :
          LET loaded == LoadCredentialFiles(broken) IN
          /\ Load(loaded)
          /\ outcome' = IF loaded.ok
                        THEN ReturnedValue(prop, Field(prop, loaded))
                        ELSE RemoteError(prop, "load-remote-creds-failed")
    /\ UNCHANGED <<remote, _credentials, channels>>
    /\ UNCHANGED <<pipeline_vars, result, op_vars, other>>

\* A credentials property that builds a new object at every read.
NoCredentials == TRUE

\* "if not self._credentials"
NoCredentialsYet == _credentials = NoBytes

\* The ChannelCredentials grpc.ssl_channel_credentials() returns: the n-th
\* object built for this spec.
SslChannelCredentials(root_certificates, private_key, certificate_chain) ==
    <<IF _credentials = NoBytes THEN 1 ELSE _credentials[1] + 1,
      root_certificates, private_key, certificate_chain>>

\* The property credentials: the load its first line may run, and the object
\* it returns when the load does not raise.
Credentials(broken) ==
    IF NoCredentialsYet
    THEN LET loaded == LoadCredentialFiles(broken) IN
         [loaded |-> loaded,
          credentials |-> IF loaded.ok
                          THEN SslChannelCredentials(loaded.server_cert, loaded.client_key,
                                                     loaded.client_cert)
                          ELSE _credentials]
    ELSE [loaded |-> [ok |-> TRUE, loaded |-> _cred_files_loaded,
                      server_cert |-> _server_cert, client_key |-> _client_key,
                      client_cert |-> _client_cert, reads |-> << >>],
          credentials |-> _credentials]

\* A read of the property credentials.
GetCredentials ==
    /\ accesses < MaxAccesses
    /\ accesses' = accesses + 1
    /\ \E broken \in Broken :
          LET got == Credentials(broken) IN
          /\ Load(got.loaded)
          /\ _credentials' = got.credentials
          /\ outcome' = IF got.loaded.ok
                        THEN ReturnedValue("credentials", got.credentials)
                        ELSE RemoteError("credentials", "load-remote-creds-failed")
    /\ UNCHANGED <<remote, channels>>
    /\ UNCHANGED <<pipeline_vars, result, op_vars, other>>

\* "not url.port": the url names no port, or port 0.
NoPort == remote.port = << >> \/ remote.port = <<0>>

\* The default taken only when the url names no port.
PortIfNamed(default) == IF remote.port = << >> THEN default ELSE remote.port[1]

\* "url.port or default"
PortOr(default) == IF NoPort THEN default ELSE remote.port[1]

\* An open_channel without the assertion on the port.
PortNeverRequired == FALSE

\* The port required of the https endpoints alone.
PortMissingOnHttps ==
    remote.remote_type = "endpoint" /\ NoPort /\ remote.scheme = "https"

\* "self.remote_type == RemoteType.ENDPOINT and not url.port"
PortMissing == remote.remote_type = "endpoint" /\ NoPort

\* open_channel(), from call to return or raise.
OpenChannel ==
    /\ accesses < MaxAccesses
    /\ accesses' = accesses + 1
    /\ IF PortMissing
       THEN /\ outcome' = RemoteError("open_channel", "port")
            /\ UNCHANGED <<_cred_files_loaded, _server_cert, _client_key, _client_cert,
                           _credentials, reads, channels>>
       ELSE IF remote.scheme = "http"
       THEN /\ channels' = Append(channels, [secure |-> FALSE, port |-> PortOr(80),
                                             credentials |-> NoBytes])
            /\ outcome' = ReturnedValue("open_channel", Len(channels) + 1)
            /\ UNCHANGED <<_cred_files_loaded, _server_cert, _client_key, _client_cert,
                           _credentials, reads>>
       ELSE IF remote.scheme = "https"
       THEN \E broken \in Broken :
               LET got == Credentials(broken) IN
               /\ Load(got.loaded)
               /\ _credentials' = got.credentials
               /\ IF got.loaded.ok
                  THEN /\ channels' = Append(channels, [secure |-> TRUE, port |-> PortOr(443),
                                                        credentials |-> got.credentials])
                       /\ outcome' = ReturnedValue("open_channel", Len(channels) + 1)
                  ELSE /\ channels' = channels
                       /\ outcome' = RemoteError("open_channel", "load-remote-creds-failed")
       ELSE /\ outcome' = RemoteError("open_channel", "scheme")
            /\ UNCHANGED <<_cred_files_loaded, _server_cert, _client_key, _client_cert,
                           _credentials, reads, channels>>
    /\ UNCHANGED remote
    /\ UNCHANGED <<pipeline_vars, result, op_vars, other>>

(***************************************************************************)
(* RemoteSpec.new_from_node()                                              *)
(***************************************************************************)

\* A value of the configuration node: << >> when the key is absent, else the
\* one value it has.
NotGiven == << >>

\* "if value:" for what get_str(key, default=None) returns: neither None nor
\* the empty string.
Truthy(value) == value # NotGiven /\ value[1] # ""

\* What the spec keeps as a file name: None and the empty string both stand
\* for no file.
FileNamed(value) == IF Truthy(value) THEN value[1] ELSE NoFile

\* The url of a node: the empty string << >>, or what urlparse finds in it.
NodeUrls == {<< >>} \cup {<<scheme, port>> : scheme \in {"http", "https"}, port \in Ports}

\* The configuration nodes new_from_node may be given: each key absent or
\* with a value, the url always there.
SpecNodes ==
    [type : {NotGiven, <<"index">>, <<"storage">>, <<"endpoint">>, <<"all">>},
     push : {NotGiven, <<TRUE>>, <<FALSE>>},
     url : NodeUrls,
     instance_name : {NotGiven, <<"main">>},
     server_cert : {NotGiven, <<"">>, <<"server.crt">>},
     client_key : {NotGiven, <<"">>, <<"client.key">>},
     client_cert : {NotGiven, <<"">>, <<"client.crt">>}]

\* No RemoteSpec object yet.
NoRemote == [remote_type |-> "none"]

\* A LoadError, with its reason and the key its provenance is of.
LoadError(reason, key) == [ok |-> FALSE, value |-> "LoadError", reason |-> reason, key |-> key]

\* The remote type new_from_node passes on.
TypeFor(spec_node, remote_execution) ==
    IF remote_execution THEN "endpoint"
    ELSE IF spec_node.type = NotGiven THEN "all" ELSE spec_node.type[1]

\* The push flag new_from_node passes on.
PushFor(spec_node, remote_execution) ==
    IF remote_execution THEN FALSE
    ELSE IF spec_node.push = NotGiven THEN FALSE ELSE spec_node.push[1]

\* A new_from_node that accepts a client certificate without its key.
CertAlwaysWithKey(client_key, client_cert) == FALSE

\* "if client_key and not client_cert"
KeyWithoutCert(client_key, client_cert) == Truthy(client_key) /\ ~Truthy(client_cert)

\* "if client_cert and not client_key"
CertWithoutKey(client_key, client_cert) == Truthy(client_cert) /\ ~Truthy(client_key)

\* new_from_node(spec_node, remote_execution=...): the LoadError it raises or
\* the RemoteSpec it returns; `validates` is whether validate_keys returned.
new_from_node(spec_node, remote_execution, validates) ==
    IF ~validates THEN LoadError("validate_keys", "")
    ELSE IF spec_node.url = << >> THEN LoadError("INVALID_DATA", "url")
    ELSE IF KeyWithoutCert(spec_node.client_key, spec_node.client_cert)
    THEN LoadError("INVALID_DATA", "client-key")
    ELSE IF CertWithoutKey(spec_node.client_key, spec_node.client_cert)
    THEN LoadError("INVALID_DATA", "client-cert")
    ELSE [ok |-> TRUE,
          value |-> [remote_type |-> TypeFor(spec_node, remote_execution),
                     push |-> PushFor(spec_node, remote_execution),
                     url |-> spec_node.url,
                     scheme |-> spec_node.url[1],
                     port |-> spec_node.url[2],
                     instance_name |-> spec_node.instance_name,
                     server_cert_file |-> FileNamed(spec_node.server_cert),
                     client_key_file |-> FileNamed(spec_node.client_key),
                     client_cert_file |-> FileNamed(spec_node.client_cert),
                     spec_node |-> TRUE]]

\* A call of RemoteSpec.new_from_node, with no base directory.
NewFromNode ==
    /\ outcome.call = "none"
    /\ remote = NoRemote
    /\ \E spec_node \in SpecNodes, remote_execution \in BOOLEAN, validates \in BOOLEAN :
          LET made == new_from_node(spec_node, remote_execution, validates) IN
          /\ outcome' = [call |-> "new_from_node", node |-> spec_node,
                         remote_execution |-> remote_execution, returned |-> made]
          /\ remote' = IF made.ok THEN made.value ELSE remote
    /\ UNCHANGED <<_cred_files_loaded, _server_cert, _client_key, _client_cert,
                   _credentials, reads, channels, accesses>>
    /\ UNCHANGED <<pipeline_vars, result, op_vars, other>>

\* A description of one MetaElement with nothing in it, the others unused.
LoneTree ==
    [n \in Nodes |-> [dependencies |-> << >>, build_dependencies |-> << >>, sources |-> << >>]]

InitRemoteSpec == InitWith({LoneTree}) /\ InitRemote(RemoteSpecs)

NextRemote ==
    \/ \E prop \in Properties : Get(prop)
    \/ GetCredentials
    \/ OpenChannel

\* A RemoteSpec and the calls made on it.
SpecRemote == InitRemoteSpec /\ [][NextRemote]_vars

InitNode == InitWith({LoneTree}) /\ InitRemote({NoRemote})

NextNode == NewFromNode

\* The making of a RemoteSpec from a configuration node.
SpecNode == InitNode /\ [][NextNode]_vars

(***************************************************************************)
(* Properties                                                              *)
(***************************************************************************)

Elements == DOMAIN elements

\* The Elements whose resolve_element has not returned.
Resolving == {stack[i].element : i \in DOMAIN stack}

\* The MetaElements the lists named in `fields` lead to from those of set S.
RECURSIVE MetaClosure(_, _)
MetaClosure(S, fields) ==
    LET T == S \cup {d \in Nodes : \E n \in S, f \in fields : d \in Range(meta[n][f])}
    IN IF T = S THEN S ELSE MetaClosure(T, fields)

\* The MetaElements of the tree of the target.
Reachable == MetaClosure({1}, {"dependencies", "build_dependencies"})

\* The calls of `call` on `arg` made so far.
Calls(call, arg) == {i \in DOMAIN trace : trace[i].call = call /\ trace[i].arg = arg}

Called(call) == {i \in DOMAIN trace : trace[i].call = call}

\* The dependencies of Element e, of both kinds.
DependenciesOf(e) ==
    Range(elements[e].runtime_dependencies) \cup Range(elements[e].build_dependencies)

\* The Elements of list `resolved` are those of the MetaElements of list
\* `described`, one for one and in the same order.
MirrorsElements(resolved, described) ==
    /\ Len(resolved) = Len(described)
    /\ \A i \in DOMAIN resolved : elements[resolved[i]].meta_element = described[i]

MirrorsSources(resolved, described) ==
    /\ Len(resolved) = Len(described)
    /\ \A i \in DOMAIN resolved : sources[resolved[i]].meta_source = described[i]

\* C1: the element factory is called at most once per MetaElement, and once
\* the target is resolved exactly once for each MetaElement of its tree and
\* for no other; no two Elements stand for one MetaElement, and every
\* dependency entry, whatever the parent, is the Element the memo holds for
\* its MetaElement.
C1_OneElementPerMetaElement ==
    /\ \A n \in Nodes : Cardinality(Calls("element_factory.create", n)) <= 1
    /\ \A a, b \in Elements :
           elements[a].meta_element = elements[b].meta_element => a = b
    /\ \A e \in Elements : \A d \in DependenciesOf(e) :
           d = resolved_elements[elements[d].meta_element]
    /\ target # None =>
           /\ \A n \in Nodes :
                  Cardinality(Calls("element_factory.create", n))
                      = IF n \in Reachable THEN 1 ELSE 0
           /\ Len(elements) = Cardinality(Reachable)

\* C1 witness: a resolved graph in which one Element is a dependency of two
\* different Elements.
C1_Witness ==
    /\ target # None
    /\ \E a, b \in Elements :
           a # b /\ DependenciesOf(a) \cap DependenciesOf(b) # {}

\* C2: every Element whose resolve_element has returned has its three lists
\* equal in length and order to those of its MetaElement; this stays so
\* while other parents are resolved and after the resolution.
C2_ListsMirrorMeta ==
    \A e \in Elements \ Resolving :
        LET m == meta[elements[e].meta_element] IN
          /\ MirrorsElements(elements[e].build_dependencies, m.build_dependencies)
          /\ MirrorsElements(elements[e].runtime_dependencies, m.dependencies)
          /\ MirrorsSources(elements[e].sources, m.sources)

\* C2 witness: a resolved Element with two build dependencies that are its
\* runtime dependencies in the other order, one of them shared with another
\* parent.
C2_Witness ==
    /\ target # None
    /\ \E e \in Elements :
           /\ Len(elements[e].build_dependencies) = 2
           /\ Len(elements[e].runtime_dependencies) = 2
           /\ elements[e].build_dependencies[1] = elements[e].runtime_dependencies[2]
           /\ elements[e].build_dependencies[2] = elements[e].runtime_dependencies[1]
           /\ \E p \in Elements \ {e} : DependenciesOf(p) \cap DependenciesOf(e) # {}

\* The places of the source lists: <<Element, index>>.
FilledSlots == UNION {{<<e, i>> : i \in DOMAIN elements[e].sources} : e \in Elements}

\* C3: every place of every source list holds a Source of its own, and the
\* source factory was called once for each place.
C3_SourcesNeverShared ==
    /\ \A a, b \in FilledSlots :
           elements[a[1]].sources[a[2]] = elements[b[1]].sources[b[2]] => a = b
    /\ Cardinality(FilledSlots) = Len(sources)
    /\ Cardinality({i \in Called("source_factory.create") : trace[i].ok}) = Len(sources)
    /\ \A e \in Elements \ Resolving :
           Len(elements[e].sources) = Len(meta[elements[e].meta_element].sources)

\* C3 witness: a resolved graph where one MetaSource occurs twice in a source
\* list and the two Sources made of it differ.
C3_Witness ==
    /\ target # None
    /\ \E e \in Elements :
           /\ Len(elements[e].sources) = 2
           /\ meta[elements[e].meta_element].sources[1]
                  = meta[elements[e].meta_element].sources[2]
           /\ elements[e].sources[1] # elements[e].sources[2]

\* The plugins of the graph: every Element and every Source created.
Plugins ==
    {<<"element", e>> : e \in Elements} \cup {<<"source", x>> : x \in DOMAIN sources}

Preflights(plugin) == Calls("preflight", plugin)

\* C4: no plugin is preflighted twice, and a constructed Pipeline has had
\* every Element and every Source of its graph preflighted once.
C4_PreflightOncePerPlugin ==
    /\ \A plugin \in Plugins : Cardinality(Preflights(plugin)) <= 1
    /\ pstate = "READY" =>
           \A plugin \in Plugins : Cardinality(Preflights(plugin)) = 1

\* C4 witness: a constructed Pipeline whose graph has an Element that two
\* Elements depend on and that has a Source.
C4_Witness ==
    /\ pstate = "READY"
    /\ \E a, b \in Elements : \E d \in DependenciesOf(a) \cap DependenciesOf(b) :
           a # b /\ elements[d].sources # << >>

\* The graph of the target is whole: every MetaElement of the tree has its
\* Element, no resolve_element is running and every list is filled.
GraphComplete ==
    /\ stack = << >>
    /\ target # None
    /\ \A n \in Reachable : \E e \in Elements : elements[e].meta_element = n
    /\ \A e \in Elements :
           LET m == meta[elements[e].meta_element] IN
             /\ Len(elements[e].build_dependencies) = Len(m.build_dependencies)
             /\ Len(elements[e].runtime_dependencies) = Len(m.dependencies)
             /\ Len(elements[e].sources) = Len(m.sources)

\* C5: no factory is called after a preflight(), and preflight() is called
\* only on a whole graph.
C5_PreflightAfterResolution ==
    /\ \A i, j \in DOMAIN trace :
           i < j /\ trace[i].call = "preflight" => trace[j].call = "preflight"
    /\ Called("preflight") # {} => GraphComplete

\* C5 witness: the first preflight() has been called, after the factories
\* made three Elements and at least two Sources.
C5_Witness ==
    /\ Cardinality(Called("preflight")) = 1
    /\ Len(elements) = 3
    /\ Len(sources) >= 2

FailedCalls(calls) == {i \in DOMAIN trace : trace[i].call \in calls /\ ~trace[i].ok}

\* C6: a preflight() that raised is the last call Pipeline.__init__ made: the
\* construction has failed and no operation of the Pipeline has run.
C6_PreflightFailFast ==
    \A i \in FailedCalls({"preflight"}) :
        /\ i = Len(trace)
        /\ pstate = "FAILED"
        /\ result.op = "none"

\* C6 witness: a preflight() raised while other plugins were still to be
\* preflighted, after one that returned.
C6_Witness ==
    /\ FailedCalls({"preflight"}) # {}
    /\ Len(pending) >= 2
    /\ \E i \in Called("preflight") : trace[i].ok

Factories == {"element_factory.create", "source_factory.create"}

\* C7: a factory call that raised is the last call Pipeline.__init__ made: the
\* construction has failed, no preflight() was called, the target is not set
\* and no operation of the Pipeline has run.
C7_FactoryFailureAborts ==
    \A i \in FailedCalls(Factories) :
        /\ i = Len(trace)
        /\ pstate = "FAILED"
        /\ Called("preflight") = {}
        /\ target = None
        /\ pending = << >>
        /\ result.op = "none"

\* C7 witness: a factory raised below the target, after Elements were made.
C7_Witness ==
    /\ FailedCalls(Factories) # {}
    /\ Len(stack) >= 2
    /\ Len(elements) >= 2

\* The moves of the Pipeline's state machine.
Moves ==
    {<<"UNBUILT", "RESOLVING">>, <<"RESOLVING", "RESOLVING">>,
     <<"RESOLVING", "PREFLIGHTING">>, <<"RESOLVING", "FAILED">>,
     <<"PREFLIGHTING", "PREFLIGHTING">>, <<"PREFLIGHTING", "READY">>,
     <<"PREFLIGHTING", "FAILED">>, <<"READY", "READY">>}

Moved == <<pstate, pstate'>> \in Moves

\* C8: the Pipeline moves only along UNBUILT, RESOLVING, PREFLIGHTING, READY,
\* or to FAILED from RESOLVING or PREFLIGHTING; nothing changes once it is
\* FAILED; a call that raised leaves it FAILED, and it is READY only when no
\* call raised.
C8_StateMachine ==
    /\ [][Moved]_vars
    /\ [][pstate = "FAILED" => UNCHANGED vars]_vars
    /\ [](FailedCalls(Factories \cup {"preflight"}) # {} <=> pstate = "FAILED")

\* C8 witness: a Pipeline that is READY after the factories and preflight()
\* were called on a graph of three Elements.
C8_Witness ==
    /\ pstate = "READY"
    /\ Len(elements) = 3
    /\ Len(trace) >= 6

\* The number of Sources of the first j Elements of list es.
RECURSIVE SourcesUpTo(_, _)
SourcesUpTo(es, j) ==
    IF j = 0 THEN 0 ELSE SourcesUpTo(es, j - 1) + Len(elements[es[j]].sources)

\* Where the j-th Element of es stands in a sequence that holds, before each
\* Element, its Sources.
Position(es, j) == j + SourcesUpTo(es, j)

\* C9: dependencies(scope, include_sources) yields the Elements of
\* target.dependencies(scope) in that order; with include_sources each is
\* directly preceded by its Sources in list order and nothing else is
\* yielded; without it no Source is yielded.
C9_SourcesRightBeforeElement ==
    result.op = "dependencies" =>
        LET es == ElementDependencies(target, result.scope)
            v == result.value
        IN IF result.include_sources
           THEN /\ Len(v) = Position(es, Len(es))
                /\ \A j \in DOMAIN es :
                       LET p == Position(es, j)
                           own == elements[es[j]].sources
                       IN /\ v[p] = <<"element", es[j]>>
                          /\ \A i \in DOMAIN own :
                                 v[p - Len(own) + i - 1] = <<"source", own[i]>>
           ELSE v = [j \in DOMAIN es |-> <<"element", es[j]>>]

\* C9 witness: dependencies(ALL, include_sources=True) has yielded at least
\* two Elements, one with two Sources and a later one with a Source.
C9_Witness ==
    /\ result.op = "dependencies"
    /\ result.include_sources
    /\ \E i, j \in DOMAIN result.value :
           /\ i < j
           /\ result.value[i][1] = "element"
           /\ Len(elements[result.value[i][2]].sources) = 2
           /\ result.value[j][1] = "element"
           /\ elements[result.value[j][2]].sources # << >>

\* The lists of a MetaElement that a traversal of `scope` follows.
ScopeFields(scope) ==
    CASE scope = "ALL" -> {"dependencies", "build_dependencies"}
      [] scope = "BUILD" -> {"build_dependencies"}
      [] scope = "RUN" -> {"dependencies"}

\* The Elements among the plugins of sequence v, in order.
ElementsOf(v) ==
    LET es == SelectSeq(v, LAMBDA plugin : plugin[1] = "element")
    IN [i \in DOMAIN es |-> es[i][2]]

Closure == ElementDependencies(target, "ALL")

\* The calls of the log that are calls of `call`.
LogOf(call) == SelectSeq(log, LAMBDA ev : ev.call = call)

\* How many Sources the first k of the calls evs returned.
RECURSIVE ReturnedBefore(_, _)
ReturnedBefore(evs, k) ==
    IF k = 0 THEN 0 ELSE ReturnedBefore(evs, k - 1) + Len(evs[k].sources)

\* value is, piece by piece, what the calls evs returned, in their order.
IsConcatenation(value, evs) ==
    /\ Len(value) = ReturnedBefore(evs, Len(evs))
    /\ \A i \in DOMAIN evs : \A k \in DOMAIN evs[i].sources :
           value[ReturnedBefore(evs, i - 1) + k] = evs[i].sources[k]

\* evs are calls on the Elements of the closure: each once, in traversal order.
OncePerElementInOrder(evs) ==
    /\ Len(evs) = Len(Closure)
    /\ \A i \in DOMAIN evs : evs[i].arg = Closure[i]

\* C11: what inconsistent() returns is the concatenation, in the ALL-scope
\* traversal order of the target, of what each Element of the closure reported
\* as its own inconsistent Sources: a Source is in the result exactly when the
\* Element that holds it reported it, in the order of the Elements and then of
\* each Element's list, and the result is empty when no Element reported one.
C11_InconsistentConcatenation ==
    result.op = "inconsistent" =>
        /\ OncePerElementInOrder(log)
        /\ IsConcatenation(result.value, log)
        /\ Range(result.value) = UNION {Range(log[i].sources) : i \in DOMAIN log}
        /\ (\A i \in DOMAIN log : log[i].sources = << >>) => result.value = << >>

\* inconsistent() has returned for a target with two dependencies, of which
\* the second and the target reported Sources and the first had none.
C11_Witness ==
    /\ result.op = "inconsistent"
    /\ Len(log) = 3
    /\ log[1].sources = << >>
    /\ Len(log[2].sources) = 2
    /\ Len(log[3].sources) = 1
    /\ Len(result.value) = 3


\* refresh() is the operation most recently called.
Refreshing == result.op = "refresh"

\* The positions in the log of the calls of `call`.
CallsOf(call) == {i \in DOMAIN log : log[i].call = call}

\* The elt._refresh() calls that returned a node for filename.
Proposers(filename) ==
    {i \in CallsOf("_refresh") : log[i].ok /\ filename \in DOMAIN log[i].files}

\* The files some Element proposed.
Proposed == {filename \in Filenames : Proposers(filename) # {}}

\* The greatest number of a non-empty set of numbers.
Last(S) == CHOOSE i \in S : \A j \in S : j <= i

\* The _yaml.dump() calls for filename that wrote it.
Dumps(filename) == {i \in CallsOf("dump") : log[i].ok /\ log[i].arg = filename}

\* C12: when several Elements of the closure propose a new toplevel node for
\* the same file, the node of the Element that is latest in the traversal is
\* the one refresh() writes; the file is written once and no more, and a
\* refresh() fails only through a call that raised, never through a collision.
C12_LastWriterWins ==
    Refreshing =>
        /\ \A filename \in Filenames :
              /\ Cardinality(Dumps(filename)) <= 1
              /\ rstate = "returned" /\ filename \in Proposed
                    => Cardinality(Dumps(filename)) = 1
              /\ Dumps(filename) # {} =>
                    /\ filename \in Proposed
                    /\ disk[filename] = log[Last(Proposers(filename))].files[filename]
        /\ rstate = "raised" => ~log[Len(log)].ok

\* refresh() has returned after two Elements proposed different nodes for
\* the same file.
C12_Witness ==
    /\ Refreshing
    /\ rstate = "returned"
    /\ \E filename \in Filenames :
          /\ Cardinality(Proposers(filename)) >= 2
          /\ \E i, j \in Proposers(filename) :
                log[i].files[filename] # log[j].files[filename]

\* C13: refresh() writes no file before the last elt._refresh() of the
\* traversal has returned: every write follows every elt._refresh() call, and
\* while Elements remain to be refreshed the files are as they were.
C13_WritesAfterTraversal ==
    Refreshing =>
        /\ \A i \in CallsOf("dump"), j \in CallsOf("_refresh") : j < i
        /\ CallsOf("dump") # {} \/ disk # result.before =>
              /\ Len(LogOf("_refresh")) = Len(Closure)
              /\ \A j \in CallsOf("_refresh") : log[j].ok

\* A file has been written by a refresh() over three Elements.
C13_Witness ==
    /\ Refreshing
    /\ Len(Closure) = 3
    /\ disk # result.before
    /\ rstate = "writing"

\* C14: when an elt._refresh() raises, refresh() fails with it: no Element
\* after that one is refreshed, nothing is returned and no file is written.
C14_RefreshFailureAborts ==
    Refreshing =>
        \A i \in CallsOf("_refresh") : ~log[i].ok =>
            /\ i = Len(log)
            /\ rstate = "raised"
            /\ disk = result.before
            /\ written = {}

\* The second of three elt._refresh() calls raised, after the first had
\* proposed a file.
C14_Witness ==
    /\ Refreshing
    /\ Len(Closure) = 3
    /\ Len(log) = 2
    /\ log[1].ok /\ DOMAIN log[1].files # {}
    /\ ~log[2].ok
    /\ rstate = "raised"


\* C15: refresh() is all-or-nothing on disk: when a refresh() call has failed,
\* whether in an elt._refresh() or in the writing of one of the files, no
\* file differs from what it was before the call.
C15_AllOrNothing ==
    Refreshing /\ rstate = "raised" => disk = result.before

\* The files the _yaml.dump() calls of the log were for.
Dumped == {log[i].arg : i \in CallsOf("dump")}

\* C16: a refresh() that returned has written exactly the files that are a
\* key of what some elt._refresh() returned; every other file is as it was
\* before the call, and nothing is written when no Element proposed a file.
C16_WritesExactlyProposed ==
    Refreshing /\ rstate = "returned" =>
        /\ Dumped = Proposed
        /\ \A i \in CallsOf("dump") : log[i].ok
        /\ \A filename \in Filenames \ Proposed : disk[filename] = result.before[filename]
        /\ Proposed = {} => CallsOf("dump") = {} /\ disk = result.before

\* refresh() has returned over three Elements of which the first alone
\* proposed a file: that file is rewritten, the other is as it was.
C16_Witness ==
    /\ Refreshing
    /\ rstate = "returned"
    /\ Len(Closure) = 3
    /\ DOMAIN log[1].files = {"a.bst"}
    /\ log[2].files = << >>
    /\ log[3].files = << >>
    /\ disk["a.bst"] # result.before["a.bst"]
    /\ disk["b.bst"] = result.before["b.bst"]

\* C17: a refresh() that returned has called elt._refresh() once on each
\* Element of the ALL-scope closure, in traversal order, every call having
\* returned, and what it returns is the concatenation in that order of the
\* changed Sources the calls returned.
C17_RefreshOncePerElement ==
    Refreshing /\ rstate = "returned" =>
        /\ OncePerElementInOrder(LogOf("_refresh"))
        /\ \A i \in CallsOf("_refresh") : log[i].ok
        /\ IsConcatenation(result.value, LogOf("_refresh"))

\* refresh() has returned over three Elements, two of which had changed
\* Sources.
C17_Witness ==
    /\ Refreshing
    /\ rstate = "returned"
    /\ Len(Closure) = 3
    /\ Len(LogOf("_refresh")) = 3
    /\ Cardinality({i \in CallsOf("_refresh") : log[i].sources # << >>}) = 2
    /\ Len(result.value) = 3


(***************************************************************************)
(* Cycles in the description                                               *)
(***************************************************************************)

\* The Elements whose resolve_element call has not returned yet.
HalfBuilt == {stack[k].element : k \in DOMAIN stack}

\* The Elements linked into some Element's dependency lists.
Linked ==
    UNION {Range(elements[e].runtime_dependencies) \cup Range(elements[e].build_dependencies) :
              e \in DOMAIN elements}

\* C18: a revisit of a MetaElement whose resolution has started but not
\* finished is a hard error: the half-built Element is never returned to the
\* caller, so no Element is linked while its own lists are incomplete.
C18_NoHalfBuiltLinked == Linked \cap HalfBuilt = {}

\* resolve_element is about to be called on a MetaElement whose own call is
\* still on the stack.
Revisit == CallingResolveElement /\ stack # << >> /\ InProgress(Callee)

\* The list the innermost frame's loop appends to.
ListOf(es, f) ==
    IF f.loop = "dependencies" THEN es[f.element].runtime_dependencies
    ELSE es[f.element].build_dependencies

\* The revisiting call returns the memoized Element as it is, half-built: no
\* error, no new Element, no new call on the stack, and the caller's loop
\* appends that Element and moves on.
RevisitReturnsMemoized ==
    Revisit =>
        LET frame == stack[CHOOSE k \in DOMAIN stack : stack[k].meta_element = Callee] IN
        /\ frame.loop # "return"
        /\ pstate' = "RESOLVING"
        /\ trace' = trace
        /\ Len(elements') = Len(elements)
        /\ resolved_elements' = resolved_elements
        /\ Len(stack') = Len(stack)
        /\ ListOf(elements', Top) = Append(ListOf(elements, Top), frame.element)
        /\ frame.element = resolved_elements[Callee]

\* C18 (amended): a revisit of a MetaElement whose resolution has started but
\* not finished raises nothing: resolve_element returns the memoized Element,
\* not yet fully populated, without creating a second Element and without
\* descending again, and the caller links it.
C18_RevisitReturnsMemoized == [][RevisitReturnsMemoized]_vars

\* Resolution has ended without an error on a description in which the
\* target and its dependency name each other: each is linked into the other.
C18_Witness ==
    /\ pstate = "PREFLIGHTING"
    /\ stack = << >>
    /\ Len(elements) >= 2
    /\ target \in Range(elements[2].runtime_dependencies)
    /\ 2 \in Range(elements[target].runtime_dependencies)
    /\ \A ev \in Range(trace) : ev.ok


(***************************************************************************)
(* RemoteSpec                                                              *)
(***************************************************************************)

\* The certificate files the spec names.
Configured == {CredentialFiles[k] : k \in 1..3} \ {NoFile}

\* The open() calls so far that come after the last one that failed.
SinceLastFailure ==
    LET failed == {i \in DOMAIN reads : ~reads[i].ok}
    IN IF failed = {} THEN reads
       ELSE SubSeq(reads, (CHOOSE i \in failed : \A j \in failed : j <= i) + 1, Len(reads))

\* s is the files the spec names, each once, in the order server
\* certificate, client key, client certificate.
EachConfiguredOnce(s) ==
    /\ {s[i].file : i \in DOMAIN s} = Configured
    /\ Len(s) = Cardinality(Configured)
    /\ \A i \in DOMAIN s : s[i].ok

\* A call of one of the four properties is made.
PropertyRead ==
    /\ accesses' = accesses + 1
    /\ outcome'.call \in Properties \cup {"credentials"}

\* No file is read before the first call; once a load has succeeded the files
\* it read are the configured ones, each once; the one credentials object is
\* the first built.
LoadedOnce ==
    /\ accesses = 0 => reads = << >> /\ ~_cred_files_loaded /\ _credentials = NoBytes
    /\ _cred_files_loaded => EachConfiguredOnce(SinceLastFailure)
    /\ _credentials # NoBytes => _credentials[1] = 1 /\ _cred_files_loaded

\* The first read of a property opens the files; after a load that succeeded
\* no call opens a file, and a credentials object once built is the one every
\* later read returns.
LazyStep ==
    /\ PropertyRead /\ accesses = 0 /\ Configured # {} => reads' # << >>
    /\ PropertyRead /\ accesses = 0 /\ outcome'.ok => EachConfiguredOnce(reads')
    /\ _cred_files_loaded => reads' = reads /\ _cred_files_loaded'
    /\ _credentials # NoBytes =>
          /\ _credentials' = _credentials
          /\ outcome'.call = "credentials" /\ accesses' # accesses
                => outcome'.ok /\ outcome'.value = _credentials

\* C19: a RemoteSpec reads no certificate file when it is constructed; the
\* configured files are read at the first read of server_cert, client_key,
\* client_cert or credentials; after a load that succeeded no later call reads
\* a file again, so each configured file was read once by that load; the
\* credentials object is built at most once and returned again afterwards.
C19_LazyLoadOnce == [][LazyStep /\ LoadedOnce /\ LoadedOnce']_vars

\* A channel was opened over https on a spec with its three files, then the
\* credentials were read: the files were read by the first call alone, and
\* the credentials returned are the object the channel was given.
C19_Witness ==
    /\ accesses = 2
    /\ Cardinality(Configured) = 3
    /\ Len(reads) = 3
    /\ _cred_files_loaded
    /\ Len(channels) = 1
    /\ outcome.call = "credentials" /\ outcome.ok
    /\ outcome.value = channels[1].credentials
    /\ outcome.value[2] = Bytes("server.crt")

\* An open_channel() call is made on a remote execution endpoint whose https
\* url names no port.
OpenChannelWithoutPort ==
    /\ accesses' = accesses + 1
    /\ outcome'.call = "open_channel"
    /\ remote.remote_type = "endpoint"
    /\ remote.scheme = "https"
    /\ remote.port = << >>

\* The call raises the RemoteError about the port, with the provenance when
\* there is a spec node, and nothing else changes.
FailsOnPort ==
    /\ ~outcome'.ok
    /\ outcome'.value = "port"
    /\ outcome'.provenance = remote.spec_node
    /\ channels' = channels
    /\ reads' = reads
    /\ remote' = remote
    /\ <<_cred_files_loaded, _server_cert, _client_key, _client_cert, _credentials>>' =
           <<_cred_files_loaded, _server_cert, _client_key, _client_cert, _credentials>>

\* C20: open_channel() on a remote execution (ENDPOINT) spec whose https url
\* names no port raises a RemoteError, whose message starts with the
\* provenance when the spec has a spec node; no channel is created, no
\* certificate file is read and every field of the spec is as it was.
C20_EndpointNeedsPort == [][OpenChannelWithoutPort => FailsOnPort]_vars

\* open_channel() has raised for the port on an endpoint spec with a spec
\* node, an https url without port and its three certificate files, none of
\* which was read.
C20_Witness ==
    /\ outcome.call = "open_channel"
    /\ ~outcome.ok
    /\ outcome.value = "port"
    /\ outcome.provenance
    /\ remote.remote_type = "endpoint"
    /\ remote.scheme = "https"
    /\ remote.port = << >>
    /\ Cardinality(Configured) = 3
    /\ reads = << >>
    /\ channels = << >>


(***************************************************************************)
(* Termination of the resolution                                           *)
(***************************************************************************)

\* The element_factory.create() calls made for meta_element.
Creations(meta_element) ==
    {i \in DOMAIN trace :
        trace[i].call = "element_factory.create" /\ trace[i].arg = meta_element}

\* The frames of resolve_element(meta_element) on the call stack.
Frames(meta_element) == {k \in DOMAIN stack : stack[k].meta_element = meta_element}

\* Each MetaElement is descended into at most once: the factory is called
\* for it once at most and one frame at most runs its loops.
DescendedOnce ==
    \A meta_element \in Nodes :
        /\ Cardinality(Creations(meta_element)) <= 1
        /\ Cardinality(Frames(meta_element)) <= 1

\* A revisit makes no call of its own.
RevisitReturns == Revisit => Len(stack') = Len(stack) /\ trace' = trace

\* Pipeline.__init__ is past its call of resolve_element, which returned or
\* raised.
ResolutionEnded == pstate \in {"PREFLIGHTING", "READY", "FAILED"}

\* C21: resolve_element terminates on every finite description, cycles
\* included: the Element is memoized before any dependency is resolved, so
\* each MetaElement is descended into at most once, a revisit returns
\* without recursing, and the call of Pipeline.__init__ comes to its end.
C21_ResolutionTerminates ==
    /\ []DescendedOnce
    /\ [][RevisitReturns]_vars
    /\ <>ResolutionEnded

\* Resolution has returned on a description whose three MetaElements depend
\* on each other in a ring, each created once.
C21_Witness ==
    /\ ResolutionEnded
    /\ stack = << >>
    /\ Len(elements) = 3
    /\ 2 \in Range(elements[1].runtime_dependencies)
    /\ 3 \in Range(elements[2].runtime_dependencies)
    /\ 1 \in Range(elements[3].runtime_dependencies)
    /\ \A meta_element \in 1..3 : Cardinality(Creations(meta_element)) = 1


(***************************************************************************)
(* Order of the loops of resolve_element                                   *)
(***************************************************************************)

\* The runtime, build and source lists of Element e are as long as the lists
\* of its MetaElement.
RuntimeComplete(e) ==
    Len(elements[e].runtime_dependencies) = Len(meta[elements[e].meta_element].dependencies)

BuildComplete(e) ==
    Len(elements[e].build_dependencies) = Len(meta[elements[e].meta_element].build_dependencies)

\* The place in the trace of the factory call for meta_element.
CreatedAt(meta_element) == CHOOSE i \in Creations(meta_element) : TRUE

\* MetaElement n has the build dependency a and the runtime dependency b and
\* no other, and the factory was called for n, then for a and b.
BuildOnlyAndRuntimeOnly(n, a, b) ==
    /\ a # b
    /\ meta[n].build_dependencies = <<a>>
    /\ meta[n].dependencies = <<b>>
    /\ Creations(n) # {} /\ Creations(a) # {} /\ Creations(b) # {}
    /\ CreatedAt(n) < CreatedAt(a)
    /\ CreatedAt(n) < CreatedAt(b)

\* C22: within the resolution of one MetaElement every entry of its build
\* dependencies is resolved before any entry of its runtime dependencies, and
\* every dependency before any source; so of a build-only dependency and a
\* runtime-only dependency that are both unresolved, the factory creates the
\* build-only one first.
C22_BuildBeforeRuntime ==
    /\ \A e \in DOMAIN elements :
          /\ elements[e].runtime_dependencies # << >> => BuildComplete(e)
          /\ elements[e].sources # << >> => BuildComplete(e) /\ RuntimeComplete(e)
    /\ \A n, a, b \in Nodes :
          BuildOnlyAndRuntimeOnly(n, a, b) => CreatedAt(a) < CreatedAt(b)

\* C22 (amended): within the resolution of one MetaElement every entry of
\* its runtime dependencies is resolved, in list order, before any entry of
\* its build dependencies, and every dependency before any source; so of a
\* build-only dependency and a runtime-only dependency that are both
\* unresolved, the factory creates the runtime-only one first.
C22_RuntimeBeforeBuild ==
    /\ \A e \in DOMAIN elements :
          /\ elements[e].build_dependencies # << >> => RuntimeComplete(e)
          /\ elements[e].sources # << >> => BuildComplete(e) /\ RuntimeComplete(e)
    /\ \A n, a, b \in Nodes :
          BuildOnlyAndRuntimeOnly(n, a, b) => CreatedAt(b) < CreatedAt(a)

\* The Pipeline is built from a target whose build dependency is MetaElement
\* 2 and whose runtime dependency is MetaElement 3, with sources: the
\* factory was called for 3 before 2.
C22_Witness ==
    /\ pstate = "READY"
    /\ BuildOnlyAndRuntimeOnly(1, 2, 3)
    /\ meta[2].dependencies = << >> /\ meta[2].build_dependencies = << >>
    /\ meta[1].sources # << >>
    /\ CreatedAt(3) < CreatedAt(2)


(***************************************************************************)
(* Two Pipelines                                                           *)
(***************************************************************************)

\* The Elements in a memo.
MemoElements(memo) == {memo[meta_element] : meta_element \in DOMAIN memo}

\* The Elements a set of Elements links to, and the Sources it holds.
LinkedFrom(es) ==
    UNION {Range(elements[e].runtime_dependencies) \cup Range(elements[e].build_dependencies) :
              e \in es}

SourcesIn(es) == UNION {Range(elements[e].sources) : e \in es}

\* The graph of a Pipeline whose memo is `memo` and whose target is `root`
\* stays within the memo.
GraphWithin(memo, root) ==
    /\ root # None => root \in MemoElements(memo)
    /\ LinkedFrom(MemoElements(memo)) \subseteq MemoElements(memo)

\* C23: the memo belongs to one Pipeline construction: two constructions, one
\* after the other or interleaved, over the same description, share no memo
\* entry; no Element and no Source is in the graphs of both, and what a
\* failed construction made is in no graph but its own.
C23_MemoPerPipeline ==
    /\ MemoElements(resolved_elements) \cap MemoElements(other.resolved_elements) = {}
    /\ SourcesIn(MemoElements(resolved_elements))
          \cap SourcesIn(MemoElements(other.resolved_elements)) = {}
    /\ GraphWithin(resolved_elements, target)
    /\ GraphWithin(other.resolved_elements, other.target)

\* A Pipeline is built over three MetaElements while the construction of
\* another over the same three, interleaved with it, failed
\* in a preflight: each has its three Elements and its Source.
C23_Witness ==
    /\ pstate = "READY"
    /\ other.pstate = "FAILED"
    /\ other.target # None
    /\ Cardinality(MemoElements(resolved_elements)) = 3
    /\ Cardinality(MemoElements(other.resolved_elements)) = 3
    /\ {1, 3} \subseteq MemoElements(other.resolved_elements)
    /\ 2 \in MemoElements(resolved_elements)
    /\ Len(sources) = 2


(***************************************************************************)
(* Loading of the credential files                                         *)
(***************************************************************************)

\* The certificate files the spec names, in the order they are read.
ConfiguredInOrder == SelectSeq(CredentialFiles, LAMBDA filename : filename # NoFile)

\* The open() calls the step makes.
NewReads == SubSeq(reads', Len(reads) + 1, Len(reads'))

\* A read of server_cert, client_key or client_cert.
AccessorRead ==
    /\ accesses' = accesses + 1
    /\ outcome'.call \in Properties

\* What the accessor `prop` returns of a spec whose files are all read: the
\* bytes of its file, None when no file is named.
BytesOf(prop) ==
    LET filename == CASE prop = "server_cert" -> remote.server_cert_file
                      [] prop = "client_key" -> remote.client_key_file
                      [] prop = "client_cert" -> remote.client_cert_file
    IN IF filename = NoFile THEN NoBytes ELSE Bytes(filename)

\* An accessor returns only once every configured file was read in one pass,
\* and then the bytes of its own file.
ReturnsWhenLoaded ==
    AccessorRead /\ outcome'.ok =>
        /\ _cred_files_loaded'
        /\ EachConfiguredOnce(SinceLastFailure')
        /\ outcome'.value = BytesOf(outcome'.call)

\* A read that fails makes the call raise RemoteError; the spec stays not
\* loaded and holds no credentials object.
FailureRaises ==
    (\E i \in DOMAIN NewReads : ~NewReads[i].ok) =>
        /\ ~outcome'.ok
        /\ outcome'.value = "load-remote-creds-failed"
        /\ outcome'.provenance = remote.spec_node
        /\ ~_cred_files_loaded'
        /\ _credentials' = NoBytes
        /\ channels' = channels

\* On a spec that is not loaded an accessor runs the whole load: it reads
\* the configured files from the first one on, all of them when it returns.
LoadsFromTheStart ==
    AccessorRead /\ ~_cred_files_loaded =>
        /\ Len(NewReads) <= Len(ConfiguredInOrder)
        /\ \A i \in DOMAIN NewReads : NewReads[i].file = ConfiguredInOrder[i]
        /\ ConfiguredInOrder # << >> => NewReads # << >>
        /\ outcome'.ok => Len(NewReads) = Len(ConfiguredInOrder)

\* C24: through server_cert, client_key and client_cert the load of the
\* credential files is all or nothing: an accessor returns a value only when
\* every configured file was read in one pass; when a read fails the call
\* raises RemoteError, the spec stays not loaded and caches no credentials,
\* and the next call runs the whole load again.
C24_LoadAllOrNothing == [][ReturnsWhenLoaded /\ FailureRaises /\ LoadsFromTheStart]_vars

\* The first read of a property failed at the client key, after the server
\* certificate was read; the second read of a property read the three files
\* and returned.
C24_Witness ==
    /\ accesses = 2
    /\ Len(reads) = 5
    /\ reads[1] = [file |-> "server.crt", ok |-> TRUE]
    /\ reads[2] = [file |-> "client.key", ok |-> FALSE]
    /\ reads[3] = [file |-> "server.crt", ok |-> TRUE]
    /\ outcome.call = "client_key" /\ outcome.ok
    /\ outcome.value = Bytes("client.key")
    /\ _credentials = NoBytes


(***************************************************************************)
(* open_channel()                                                          *)
(***************************************************************************)

\* An open_channel() call is made.
OpenChannelCalled ==
    /\ accesses' = accesses + 1
    /\ outcome'.call = "open_channel"

\* The call returns a new channel, the only one it creates.
Opens(secure, port, credentials) ==
    /\ outcome'.ok
    /\ channels' = Append(channels, [secure |-> secure, port |-> port,
                                     credentials |-> credentials])

\* The call raises RemoteError and creates no channel.
Raises(reason) ==
    /\ ~outcome'.ok
    /\ outcome'.value = reason
    /\ channels' = channels

\* The port of the url, `default` when it names none.
NamedPortOr(default) == IF remote.port = << >> THEN default ELSE remote.port[1]

\* The port of the url, `default` when it names none or names port 0.
NonZeroPortOr(default) ==
    IF remote.port = << >> \/ remote.port = <<0>> THEN default ELSE remote.port[1]

\* A read of a credential file fails in the step.
SomeReadFails == \E i \in DOMAIN NewReads : ~NewReads[i].ok

\* C25: open_channel() dispatches on the scheme of the url alone: http opens
\* a plaintext channel to the port of the url, 80 when it names none, reading
\* no credential file and building no credentials; https opens an encrypted
\* channel to the port of the url, 443 when it names none, with the
\* credentials of the spec; any other scheme raises RemoteError and creates
\* no channel.
C25_DispatchOnSchemeOnly ==
    [][OpenChannelCalled =>
          CASE remote.scheme = "http" ->
                  /\ Opens(FALSE, NamedPortOr(80), NoBytes)
                  /\ reads' = reads
                  /\ _credentials' = _credentials
            [] remote.scheme = "https" ->
                  /\ Opens(TRUE, NamedPortOr(443), _credentials')
                  /\ _credentials' # NoBytes
            [] OTHER -> Raises("scheme")]_vars

\* What open_channel() does by the scheme of the url, once past its check of
\* the port.
DispatchOnScheme ==
    CASE remote.scheme = "http" ->
            /\ Opens(FALSE, NonZeroPortOr(80), NoBytes)
            /\ reads' = reads
            /\ _credentials' = _credentials
      [] remote.scheme = "https" ->
            IF SomeReadFails
            THEN Raises("load-remote-creds-failed") /\ _credentials' = NoBytes
            ELSE /\ Opens(TRUE, NonZeroPortOr(443), _credentials')
                 /\ _credentials' # NoBytes
      [] OTHER -> Raises("scheme") /\ reads' = reads

\* C25 (amended): on a spec that is not a remote execution endpoint without
\* port, open_channel() dispatches on the scheme of the url: http opens a
\* plaintext channel to the port of the url, 80 when it names none or port 0,
\* reading no credential file and building no credentials; https opens an
\* encrypted channel to the port of the url, 443 when it names none or port
\* 0, with the credentials of the spec, and raises RemoteError without a
\* channel when a credential file cannot be read; any other scheme raises
\* RemoteError and creates no channel. On an endpoint without port the call
\* raises RemoteError whatever the scheme.
C25_DispatchAfterPortCheck ==
    [][OpenChannelCalled =>
          IF remote.remote_type = "endpoint" /\ remote.port \in {<< >>, <<0>>}
          THEN Raises("port") /\ reads' = reads
          ELSE DispatchOnScheme]_vars

\* An encrypted channel is open to port 443 for a spec that is no endpoint,
\* names no port and has its three files, with the credentials built from
\* them.
C25_Witness ==
    /\ outcome.call = "open_channel" /\ outcome.ok
    /\ remote.remote_type # "endpoint"
    /\ remote.scheme = "https"
    /\ remote.port = << >>
    /\ Len(channels) = 1
    /\ channels[1].secure
    /\ channels[1].port = 443
    /\ channels[1].credentials = _credentials
    /\ _credentials # NoBytes
    /\ Len(reads) = 3


\* C26: on a remote execution (ENDPOINT) spec open_channel() requires the
\* port whatever the scheme of the url and before it looks at the scheme: an
\* http endpoint without port is refused, a url with an unsupported scheme
\* and no port gets the error about the port; a spec of another remote type
\* never gets that error.
C26_PortCheckedFirst ==
    [][OpenChannelCalled =>
          /\ remote.remote_type = "endpoint" /\ remote.port = << >>
                => Raises("port") /\ reads' = reads /\ _credentials' = _credentials
          /\ remote.remote_type # "endpoint" => outcome'.ok \/ outcome'.value # "port"
          /\ remote.remote_type # "endpoint" /\ remote.scheme = "http" /\ remote.port = << >>
                => Opens(FALSE, 80, NoBytes)]_vars

\* open_channel() has raised the error about the port for an endpoint whose
\* url has an unsupported scheme and no port.
C26_Witness ==
    /\ outcome.call = "open_channel"
    /\ ~outcome.ok
    /\ outcome.value = "port"
    /\ remote.remote_type = "endpoint"
    /\ remote.scheme = "ftp"
    /\ remote.port = << >>
    /\ channels = << >>


(***************************************************************************)
(* RemoteSpec.new_from_node()                                              *)
(***************************************************************************)

\* The node names a file under `key`.
Names(value) == value # << >> /\ value # <<"">>

\* The call raised LoadError; with the reason INVALID_DATA when the error is
\* one new_from_node raises itself.
FailsToLoad ==
    /\ ~outcome.returned.ok
    /\ outcome.returned.value = "LoadError"
    /\ outcome.returned.reason \in {"INVALID_DATA", "validate_keys"}
    /\ outcome.returned.reason = "validate_keys" \/ outcome.returned.key # ""
    /\ remote = NoRemote

====
